---- MODULE Spec2Model ----
(***************************************************************************)
(* Model of the food-coop shift calendar sync (src/main.py): the           *)
(* description encoding of a shift's urls, the label normalisation of the  *)
(* scraper and the reconciliation of scraped shifts with the remote        *)
(* calendar.                                                               *)
(*                                                                         *)
(* A Python str is a sequence of one-character strings.  The characters    *)
(* "CARROT" and "BROOM" stand for the single code points U+1F955 and       *)
(* U+1F9F9.  A datetime is a number of minutes.                            *)
(***************************************************************************)
EXTENDS Integers, Sequences, FiniteSets, TLC

VARIABLES
    calendar,                \* remote calendar: the set of stored events
    nextId,                  \* id the remote calendar gives the next added event
    shifts,                  \* the scraped list handed to reconcile_shifts_to_google_calendar
    run,                     \* number of runs started
    pc,                      \* position of the current run
    events,                  \* what get_events() returned to the current run
    i,                       \* index of the read loop into events
    existing_shifts_for_key, \* dict of the run, in insertion order
    parsed_shifts_for_key,   \* dict of the run, in insertion order
    shifts_to_add,           \* additions still to issue
    events_to_remove,        \* removals still to issue
    shifts_to_update,        \* updates still to issue
    calls,                   \* calendar mutations issued by the current run, in order
    outcomes,                \* how the runs before the current one ended, in order
    rt,                      \* description round trip: input, description, decoded
    lp,                      \* label normalisation: input, outcome
    scrape                   \* the scrape: raw day fragments, tasks, lists, outcome

vars == <<calendar, nextId, shifts, run, pc, events, i, existing_shifts_for_key,
          parsed_shifts_for_key, shifts_to_add, events_to_remove,
          shifts_to_update, calls, outcomes, rt, lp, scrape>>

reconcileVars == <<calendar, nextId, shifts, run, pc, events, i,
                   existing_shifts_for_key, parsed_shifts_for_key, shifts_to_add,
                   events_to_remove, shifts_to_update, calls, outcomes>>

(***************************************************************************)
(* Python str methods, as the code uses them.                              *)
(***************************************************************************)
Whitespace == {" ", "\n", "\t"}

LineBoundary == {"\n"}

RECURSIVE FirstNotIn(_, _, _)
FirstNotIn(s, cs, k) ==
    IF k > Len(s) THEN k
    ELSE IF s[k] \in cs THEN FirstNotIn(s, cs, k + 1) ELSE k

RECURSIVE LastNotIn(_, _, _)
LastNotIn(s, cs, k) ==
    IF k < 1 THEN 0
    ELSE IF s[k] \in cs THEN LastNotIn(s, cs, k - 1) ELSE k

\* s.lstrip(chars): drops every leading character that is in the set chars
lstrip(s, cs) == SubSeq(s, FirstNotIn(s, cs, 1), Len(s))

\* s.rstrip(chars): drops every trailing character that is in the set chars
rstrip(s, cs) == SubSeq(s, 1, LastNotIn(s, cs, Len(s)))

\* s.strip()
strip(s) == rstrip(lstrip(s, Whitespace), Whitespace)

\* the set of characters of a str, which is all lstrip/rstrip look at
CharsOf(s) == {s[k] : k \in 1..Len(s)}

startswith(s, p) == Len(s) >= Len(p) /\ SubSeq(s, 1, Len(p)) = p

RECURSIVE splitlinesFrom(_, _)
splitlinesFrom(s, k) ==
    IF k > Len(s) THEN <<>>
    ELSE LET j == FirstNotIn(s, CharsOf(s) \ LineBoundary, k)
         IN  <<SubSeq(s, k, j - 1)>> \o splitlinesFrom(s, j + 1)

\* s.splitlines()
splitlines(s) == splitlinesFrom(s, 1)

RECURSIVE join(_, _)
\* sep.join(lines)
join(sep, lines) ==
    IF Len(lines) = 0 THEN <<>>
    ELSE IF Len(lines) = 1 THEN lines[1]
    ELSE lines[1] \o sep \o join(sep, Tail(lines))

Digits == <<"0", "1", "2", "3", "4", "5", "6", "7", "8", "9">>

RECURSIVE str(_)
\* str(n) of a natural number, as the f-string formats len(shift.urls)
str(n) == IF n < 10 THEN <<Digits[n + 1]>>
          ELSE str(n \div 10) \o <<Digits[(n % 10) + 1]>>

\* the orders in which iterating a frozenset can yield its elements
Orders(S) == {f \in [1..Cardinality(S) -> S] : \A a, b \in 1..Cardinality(S) : f[a] = f[b] => a = b}

(***************************************************************************)
(* Constants of src/main.py.                                               *)
(***************************************************************************)
GOOGLE_FOODCOOP_LOCATION == "Park Slope Food Coop"

FOODCOOP_SHIFT_LENGTH == 165

\* event.description of an event stored without description (None)
NoDescription == <<"None">>

(***************************************************************************)
(* FoodCoopShiftKey, FoodCoopShift, Event.                                 *)
(***************************************************************************)
FoodCoopShiftKey(start_time, label) == [start_time |-> start_time, label |-> label]

FoodCoopShift(key, urls) == [key |-> key, urls |-> urls]

\* the description create_event_from_shift builds, the urls listed in order `order`
description_of(label, order) ==
    join(<<"\n">>,
         << str(Len(order)) \o <<" ", "s", "h", "i", "f", "t", "(", "s", ")", " ",
                                  "a", "v", "a", "i", "l", "a", "b", "l", "e", " ",
                                  "f", "o", "r", " ">> \o label \o <<":">>,
            <<"<", "u", "l", ">">> >>
         \o [k \in 1..Len(order) |-> <<"<", "l", "i", ">">> \o order[k] \o <<"<", "/", "l", "i", ">">>]
         \o << <<"<", "/", "u", "l", ">">> >>)

\* create_event_from_shift(shift); the remote calendar sets the id
create_event_from_shift(shift, order) ==
    [ id          |-> 0,
      summary     |-> shift.key.label,
      start       |-> shift.key.start_time,
      end         |-> shift.key.start_time + FOODCOOP_SHIFT_LENGTH,
      description |-> description_of(shift.key.label, order),
      location    |-> GOOGLE_FOODCOOP_LOCATION ]

\* the urls FoodCoopShift.from_event reads out of a description
urls_of_description(description) ==
    LET lines == splitlines(description)
    IN  { rstrip(lstrip(strip(lines[k]), {"<", "l", "i", ">"}), {"<", "/", "l", "i", ">"}) :
            k \in {n \in 1..Len(lines) : startswith(strip(lines[n]), <<"<", "l", "i", ">">>)} }

\* FoodCoopShift.from_event(event), for an event that has a description
from_event(event) ==
    FoodCoopShift(FoodCoopShiftKey(event.start, event.summary),
                  urls_of_description(event.description))

(***************************************************************************)
(* Label normalisation of parse_shifts_from_calendar_date_locator.         *)
(***************************************************************************)
\* s.split(maxsplit=1): at most two parts, cut at the first run of whitespace
split1(s) ==
    LET a == FirstNotIn(s, Whitespace, 1)
        b == FirstNotIn(s, CharsOf(s) \ Whitespace, a)
        c == FirstNotIn(s, Whitespace, b)
    IN  IF a > Len(s) THEN <<>>
        ELSE IF c > Len(s) THEN <<SubSeq(s, a, b - 1)>>
        ELSE <<SubSeq(s, a, b - 1), SubSeq(s, c, Len(s))>>

\* s.rsplit(maxsplit=1): at most two parts, cut at the last run of whitespace
rsplit1(s) ==
    LET a == LastNotIn(s, Whitespace, Len(s))
        b == LastNotIn(s, CharsOf(s) \ Whitespace, a)
        c == LastNotIn(s, Whitespace, b)
    IN  IF a < 1 THEN <<>>
        ELSE IF c < 1 THEN <<SubSeq(s, b + 1, a)>>
        ELSE <<SubSeq(s, 1, c), SubSeq(s, b + 1, a)>>

ValueError == <<"ValueError">>

\* the normalisation, were the first token after the glyph kept as part of the name
normalize_label_keeping_kind(raw) ==
    LET label == lstrip(lstrip(strip(raw), {"CARROT"}), Whitespace)
        names == rsplit1(label)
    IN  IF Len(names) < 2 THEN ValueError
        ELSE names[2] \o <<" ">> \o names[1]

\* src/main.py:152-157: the key label made of a raw label text; ValueError
\* where a tuple unpacking finds fewer than two parts
normalize_label(raw) ==
    LET label_text == strip(raw)
        parts      == split1(lstrip(label_text, {"CARROT"}))
    IN  IF Len(parts) < 2 THEN ValueError
        ELSE LET label == parts[2]
                 names == rsplit1(label)
             IN  IF Len(names) < 2 THEN ValueError
                 ELSE LET shift_name == names[1]
                          emoji      == names[2]
                      IN  emoji \o <<" ">> \o shift_name

(***************************************************************************)
(* Inputs of the model: keys, urls, scraped lists, initial calendars.      *)
(***************************************************************************)
MaxShifts == 2

MaxCal == 2

MaxRuns == 2

\* src/main.py:30
FOODCOOP_URL == <<"h", "t", "t", "p", "s", ":", "/", "/", "m", "e", "m", "b", "e", "r", "s", ".",
                  "f", "o", "o", "d", "c", "o", "o", "p", ".", "c", "o", "m">>

\* booking links of the reconciliation's inputs; the last ends with a character of "</li>"
Url1 == <<"h", ":", "/", "1">>

Url2 == <<"h", ":", "/", "2">>

UrlL == <<"h", ":", "/", "l">>

BroomLabel == <<"BROOM", " ", "C">>

KeySeq == <<FoodCoopShiftKey(540, BroomLabel), FoodCoopShiftKey(720, BroomLabel)>>

Keys == {KeySeq[k] : k \in 1..Len(KeySeq)}

\* the shifts a scraped list is made of
ScrapedShifts ==
    { FoodCoopShift(KeySeq[1], {Url1}),
      FoodCoopShift(KeySeq[1], {Url1, Url2}),
      FoodCoopShift(KeySeq[1], {UrlL}),
      FoodCoopShift(KeySeq[2], {Url1}) }

\* a description nobody encoded: an event made by hand
ManualDescription == <<"b", "y", " ", "h", "a", "n", "d">>

\* where an event made by hand takes place
ManualLocation == "Elsewhere"

\* the events a calendar can hold before the first run: key, description,
\* length in minutes and location; the one made by hand has its own
InitialEventSeq ==
    << [key |-> KeySeq[1], description |-> description_of(BroomLabel, <<Url1>>),
        length |-> FOODCOOP_SHIFT_LENGTH, location |-> GOOGLE_FOODCOOP_LOCATION],
       [key |-> KeySeq[1], description |-> description_of(BroomLabel, <<Url1, Url2>>),
        length |-> FOODCOOP_SHIFT_LENGTH, location |-> GOOGLE_FOODCOOP_LOCATION],
       [key |-> KeySeq[1], description |-> ManualDescription,
        length |-> 60, location |-> ManualLocation],
       [key |-> KeySeq[1], description |-> NoDescription,
        length |-> FOODCOOP_SHIFT_LENGTH, location |-> GOOGLE_FOODCOOP_LOCATION],
       [key |-> KeySeq[2], description |-> description_of(BroomLabel, <<Url1>>),
        length |-> FOODCOOP_SHIFT_LENGTH, location |-> GOOGLE_FOODCOOP_LOCATION],
       [key |-> KeySeq[2], description |-> description_of(BroomLabel, <<UrlL>>),
        length |-> FOODCOOP_SHIFT_LENGTH, location |-> GOOGLE_FOODCOOP_LOCATION] >>

\* the t-th of them, stored under id
InitialEvent(id, t) ==
    LET key == InitialEventSeq[t].key
    IN  [ id          |-> id,
          summary     |-> key.label,
          start       |-> key.start_time,
          end         |-> key.start_time + InitialEventSeq[t].length,
          description |-> InitialEventSeq[t].description,
          location    |-> InitialEventSeq[t].location ]

\* the calendars before the first run: up to MaxCal events, ids in storage order
InitialCalendars ==
    UNION { { {InitialEvent(k, f[k]) : k \in 1..n} :
                f \in {g \in [1..n -> 1..Len(InitialEventSeq)] :
                         \A a, b \in 1..n : a <= b => g[a] <= g[b]} } :
            n \in 0..MaxCal }

ScrapedLists == UNION { [1..n -> ScrapedShifts] : n \in 0..MaxShifts }

(***************************************************************************)
(* Dictionaries of the run, kept as sequences in insertion order.          *)
(***************************************************************************)
HasKey(d, key) == \E k \in 1..Len(d) : d[k].key = key

Get(d, key) == d[CHOOSE k \in 1..Len(d) : d[k].key = key]

RECURSIVE dict_of_shifts(_)
\* {shift.key: shift for shift in shifts}: a later shift replaces the value of its key
dict_of_shifts(s) ==
    IF Len(s) = 0 THEN <<>>
    ELSE LET d    == dict_of_shifts(SubSeq(s, 1, Len(s) - 1))
             last == s[Len(s)]
         IN  IF HasKey(d, last.key)
             THEN [k \in 1..Len(d) |->
                     IF d[k].key = last.key THEN [key |-> last.key, shift |-> last] ELSE d[k]]
             ELSE Append(d, [key |-> last.key, shift |-> last])

\* src/main.py:250-252
compute_shifts_to_add(scraped, existing) ==
    LET absent(shift) == ~HasKey(existing, shift.key)
    IN  SelectSeq(scraped, absent)

\* the removals, were the events of the keys still scraped the ones selected
compute_events_to_remove_of_scraped(existing, parsed) ==
    LET stays(entry) == HasKey(parsed, entry.shift.key)
        kept == SelectSeq(existing, stays)
    IN  [k \in 1..Len(kept) |-> kept[k].event]

\* src/main.py:259-263
compute_events_to_remove(existing, parsed) ==
    LET gone(entry) == ~HasKey(parsed, entry.shift.key)
        kept == SelectSeq(existing, gone)
    IN  [k \in 1..Len(kept) |-> kept[k].event]

\* lines 270-275 without the comparison of the urls
compute_shifts_to_update_of_every_key(existing, parsed) ==
    LET scraped(entry) == HasKey(parsed, entry.shift.key)
        kept == SelectSeq(existing, scraped)
    IN  [k \in 1..Len(kept) |->
            [shift |-> Get(parsed, kept[k].shift.key).shift, event |-> kept[k].event]]

\* src/main.py:270-275
compute_shifts_to_update(existing, parsed) ==
    LET changed(entry) == /\ HasKey(parsed, entry.shift.key)
                          /\ entry.shift.urls /= Get(parsed, entry.shift.key).shift.urls
        kept == SelectSeq(existing, changed)
    IN  [k \in 1..Len(kept) |->
            [shift |-> Get(parsed, kept[k].shift.key).shift, event |-> kept[k].event]]

(***************************************************************************)
(* The remote calendar (gcsa.GoogleCalendar).                              *)
(***************************************************************************)
Stored(cal, event) == \E e \in cal : e.id = event.id

\* delete_event(event), of an event the calendar stores
delete_event(cal, event) == {e \in cal : e.id /= event.id}

\* add_event(event): the calendar stores the event under a fresh id
add_event(cal, event, id) == cal \cup {[event EXCEPT !.id = id]}

\* an update that writes the location of a shift event along with the description
update_event_resetting_location(cal, event) ==
    {e \in cal : e.id /= event.id} \cup {[event EXCEPT !.location = GOOGLE_FOODCOOP_LOCATION]}

\* update_event(event), of an event the calendar stores: the stored event of
\* that id is replaced by the given one
update_event(cal, event) == {e \in cal : e.id /= event.id} \cup {event}

Call(op, event) == [op |-> op, event |-> event]

(***************************************************************************)
(* reconcile_shifts_to_google_calendar, one step per calendar call.        *)
(***************************************************************************)
Idle == [stage |-> "idle"]

InitReconcile ==
    /\ calendar \in InitialCalendars
    /\ nextId = Cardinality(calendar) + 1
    /\ shifts \in ScrapedLists
    /\ run = 0
    /\ pc = "idle"
    /\ events = <<>>
    /\ i = 1
    /\ existing_shifts_for_key = <<>>
    /\ parsed_shifts_for_key = <<>>
    /\ shifts_to_add = <<>>
    /\ events_to_remove = <<>>
    /\ shifts_to_update = <<>>
    /\ calls = <<>>
    /\ outcomes = <<>>

\* src/main.py:235-236: a run starts; get_events() returns the stored events in
\* an order of the calendar's choosing
BeginRun ==
    /\ pc \in {"idle", "done", "failed", "aborted"}
    /\ run' = run + 1
    /\ \E order \in Orders(calendar) : events' = order
    /\ i' = 1
    /\ existing_shifts_for_key' = <<>>
    /\ parsed_shifts_for_key' = <<>>
    /\ shifts_to_add' = <<>>
    /\ events_to_remove' = <<>>
    /\ shifts_to_update' = <<>>
    /\ calls' = <<>>
    /\ pc' = "read"
    /\ UNCHANGED <<calendar, nextId, shifts, outcomes, rt, lp, scrape>>

\* a run starts, one of the MaxRuns runs of a behaviour
StartRun == run < MaxRuns /\ BeginRun

\* src/main.py:94-98: from_event on an event without description raises
ReadNoDescription ==
    /\ pc = "read"
    /\ i <= Len(events)
    /\ events[i].description = NoDescription
    /\ pc' = "failed"
    /\ outcomes' = Append(outcomes, "failed")
    /\ UNCHANGED <<calendar, nextId, shifts, run, events, i, existing_shifts_for_key,
                   parsed_shifts_for_key, shifts_to_add, events_to_remove,
                   shifts_to_update, calls, rt, lp, scrape>>

\* the read of an event whose key was seen before, were the event left in place
ReadDuplicateWithoutDelete ==
    /\ pc = "read"
    /\ i <= Len(events)
    /\ events[i].description /= NoDescription
    /\ HasKey(existing_shifts_for_key, from_event(events[i]).key)
    /\ i' = i + 1
    /\ UNCHANGED <<calendar, nextId, shifts, run, pc, events, existing_shifts_for_key,
                   parsed_shifts_for_key, shifts_to_add, events_to_remove,
                   shifts_to_update, calls, outcomes, rt, lp, scrape>>

\* the read of an event whose key was seen before, were the deleted event
\* recorded in the existing map as well
ReadDuplicateAlsoRecorded ==
    /\ pc = "read"
    /\ i <= Len(events)
    /\ events[i].description /= NoDescription
    /\ HasKey(existing_shifts_for_key, from_event(events[i]).key)
    /\ calendar' = delete_event(calendar, events[i])
    /\ calls' = Append(calls, Call("delete_event", events[i]))
    /\ existing_shifts_for_key' =
         Append(existing_shifts_for_key,
                [key |-> from_event(events[i]).key, shift |-> from_event(events[i]),
                 event |-> events[i]])
    /\ i' = i + 1
    /\ UNCHANGED <<nextId, shifts, run, pc, events, parsed_shifts_for_key, shifts_to_add,
                   events_to_remove, shifts_to_update, outcomes, rt, lp, scrape>>

\* src/main.py:237-240: the key was seen before, the event is deleted; the
\* calendar refuses to delete an event it does not store, which ends the run
ReadDuplicate ==
    /\ pc = "read"
    /\ i <= Len(events)
    /\ events[i].description /= NoDescription
    /\ HasKey(existing_shifts_for_key, from_event(events[i]).key)
    /\ calls' = Append(calls, Call("delete_event", events[i]))
    /\ IF Stored(calendar, events[i])
       THEN /\ calendar' = delete_event(calendar, events[i])
            /\ i' = i + 1
            /\ UNCHANGED <<pc, outcomes>>
       ELSE /\ pc' = "aborted"
            /\ outcomes' = Append(outcomes, "aborted")
            /\ UNCHANGED <<calendar, i>>
    /\ UNCHANGED <<nextId, shifts, run, events, existing_shifts_for_key,
                   parsed_shifts_for_key, shifts_to_add, events_to_remove,
                   shifts_to_update, rt, lp, scrape>>

\* src/main.py:237-242: the key is new, the event and its shift are recorded
ReadRecord ==
    /\ pc = "read"
    /\ i <= Len(events)
    /\ events[i].description /= NoDescription
    /\ LET existing_shift == from_event(events[i])
       IN  /\ ~HasKey(existing_shifts_for_key, existing_shift.key)
           /\ existing_shifts_for_key' =
                Append(existing_shifts_for_key,
                       [key |-> existing_shift.key, shift |-> existing_shift,
                        event |-> events[i]])
    /\ i' = i + 1
    /\ UNCHANGED <<calendar, nextId, shifts, run, pc, events, parsed_shifts_for_key,
                   shifts_to_add, events_to_remove, shifts_to_update, calls, outcomes, rt, lp, scrape>>

\* the removals of lines 259-267 issued ahead of the additions of lines 250-256
PlanAdditionsAfterRemovals ==
    /\ pc = "read"
    /\ i > Len(events)
    /\ parsed_shifts_for_key' = dict_of_shifts(shifts)
    /\ shifts_to_add' = compute_shifts_to_add(shifts, existing_shifts_for_key)
    /\ LET gone == compute_events_to_remove(existing_shifts_for_key, dict_of_shifts(shifts))
       IN  /\ calendar' = {e \in calendar : \A k \in 1..Len(gone) : e.id /= gone[k].id}
           /\ calls' = calls \o [k \in 1..Len(gone) |-> Call("delete_event", gone[k])]
    /\ pc' = "add"
    /\ UNCHANGED <<nextId, shifts, run, events, i, existing_shifts_for_key,
                   events_to_remove, shifts_to_update, outcomes, rt, lp, scrape>>

\* src/main.py:244-254: the read loop is over
PlanAdditions ==
    /\ pc = "read"
    /\ i > Len(events)
    /\ parsed_shifts_for_key' = dict_of_shifts(shifts)
    /\ shifts_to_add' = compute_shifts_to_add(shifts, existing_shifts_for_key)
    /\ pc' = "add"
    /\ UNCHANGED <<calendar, nextId, shifts, run, events, i, existing_shifts_for_key,
                   events_to_remove, shifts_to_update, calls, outcomes, rt, lp, scrape>>

\* src/main.py:255-256
AddEvent ==
    /\ pc = "add"
    /\ shifts_to_add /= <<>>
    /\ \E order \in Orders(Head(shifts_to_add).urls) :
         LET event == create_event_from_shift(Head(shifts_to_add), order)
         IN  /\ calendar' = add_event(calendar, event, nextId)
             /\ calls' = Append(calls, Call("add_event", [event EXCEPT !.id = nextId]))
    /\ nextId' = nextId + 1
    /\ shifts_to_add' = Tail(shifts_to_add)
    /\ UNCHANGED <<shifts, run, pc, events, i, existing_shifts_for_key,
                   parsed_shifts_for_key, events_to_remove, shifts_to_update, outcomes, rt, lp, scrape>>

\* src/main.py:258-265: the additions are over
PlanRemovals ==
    /\ pc = "add"
    /\ shifts_to_add = <<>>
    /\ events_to_remove' = compute_events_to_remove(existing_shifts_for_key, parsed_shifts_for_key)
    /\ pc' = "remove"
    /\ UNCHANGED <<calendar, nextId, shifts, run, events, i, existing_shifts_for_key,
                   parsed_shifts_for_key, shifts_to_add, shifts_to_update, calls, outcomes, rt, lp, scrape>>

\* src/main.py:266-267
DeleteEvent ==
    /\ pc = "remove"
    /\ events_to_remove /= <<>>
    /\ calls' = Append(calls, Call("delete_event", Head(events_to_remove)))
    /\ IF Stored(calendar, Head(events_to_remove))
       THEN /\ calendar' = delete_event(calendar, Head(events_to_remove))
            /\ events_to_remove' = Tail(events_to_remove)
            /\ UNCHANGED <<pc, outcomes>>
       ELSE /\ pc' = "aborted"
            /\ outcomes' = Append(outcomes, "aborted")
            /\ UNCHANGED <<calendar, events_to_remove>>
    /\ UNCHANGED <<nextId, shifts, run, events, i, existing_shifts_for_key,
                   parsed_shifts_for_key, shifts_to_add, shifts_to_update, rt, lp, scrape>>

\* src/main.py:269-277: the removals are over
PlanUpdates ==
    /\ pc = "remove"
    /\ events_to_remove = <<>>
    /\ shifts_to_update' = compute_shifts_to_update(existing_shifts_for_key, parsed_shifts_for_key)
    /\ pc' = "update"
    /\ UNCHANGED <<calendar, nextId, shifts, run, events, i, existing_shifts_for_key,
                   parsed_shifts_for_key, shifts_to_add, events_to_remove, calls, outcomes, rt, lp, scrape>>

\* src/main.py:278-280
UpdateEvent ==
    /\ pc = "update"
    /\ shifts_to_update /= <<>>
    /\ \E order \in Orders(Head(shifts_to_update).shift.urls) :
         LET shift == Head(shifts_to_update).shift
             event == [Head(shifts_to_update).event EXCEPT
                         !.description = create_event_from_shift(shift, order).description]
         IN  /\ calls' = Append(calls, Call("update_event", event))
             /\ IF Stored(calendar, event)
                THEN /\ calendar' = update_event(calendar, event)
                     /\ shifts_to_update' = Tail(shifts_to_update)
                     /\ UNCHANGED <<pc, outcomes>>
                ELSE /\ pc' = "aborted"
                     /\ outcomes' = Append(outcomes, "aborted")
                     /\ UNCHANGED <<calendar, shifts_to_update>>
    /\ UNCHANGED <<nextId, shifts, run, events, i, existing_shifts_for_key,
                   parsed_shifts_for_key, shifts_to_add, events_to_remove, rt, lp, scrape>>

\* src/main.py:280: the run returns
Finish ==
    /\ pc = "update"
    /\ shifts_to_update = <<>>
    /\ pc' = "done"
    /\ outcomes' = Append(outcomes, "done")
    /\ UNCHANGED <<calendar, nextId, shifts, run, events, i, existing_shifts_for_key,
                   parsed_shifts_for_key, shifts_to_add, events_to_remove,
                   shifts_to_update, calls, rt, lp, scrape>>

Init == InitReconcile /\ rt = Idle /\ lp = Idle /\ scrape = Idle

Next ==
    \/ StartRun
    \/ ReadNoDescription
    \/ ReadDuplicate
    \/ ReadRecord
    \/ PlanAdditions
    \/ AddEvent
    \/ PlanRemovals
    \/ DeleteEvent
    \/ PlanUpdates
    \/ UpdateEvent
    \/ Finish

Spec == Init /\ [][Next]_vars

(***************************************************************************)
(* Description round trip: create_event_from_shift, then from_event.       *)
(***************************************************************************)
MaxUrls == 2

MaxPathLen == 2

PathChars == {"s", "l", "1", "/"}

\* absolute urls under the site's origin: FOODCOOP_URL, "/" and a short path
RoundTripUrls ==
    UNION { {FOODCOOP_URL \o <<"/">> \o path : path \in [1..n -> PathChars]} : n \in 0..MaxPathLen }

RoundTripUrlSets == {urls \in SUBSET RoundTripUrls : Cardinality(urls) <= MaxUrls}

\* the reconciliation is not running
ReconcileOff ==
    /\ calendar = {}
    /\ nextId = 1
    /\ shifts = <<>>
    /\ run = 0
    /\ pc = "off"
    /\ events = <<>>
    /\ i = 1
    /\ existing_shifts_for_key = <<>>
    /\ parsed_shifts_for_key = <<>>
    /\ shifts_to_add = <<>>
    /\ events_to_remove = <<>>
    /\ shifts_to_update = <<>>
    /\ calls = <<>>
    /\ outcomes = <<>>

InitRoundTrip ==
    /\ ReconcileOff
    /\ lp = Idle
    /\ scrape = Idle
    /\ \E urls \in RoundTripUrlSets : rt = [stage |-> "input", urls |-> urls]

\* src/main.py:210-226
Encode ==
    /\ rt.stage = "input"
    /\ \E order \in Orders(rt.urls) :
         rt' = [stage |-> "encoded", urls |-> rt.urls,
                event |-> create_event_from_shift(
                              FoodCoopShift(KeySeq[1], rt.urls), order)]
    /\ UNCHANGED <<reconcileVars, lp, scrape>>

\* src/main.py:90-107
Decode ==
    /\ rt.stage = "encoded"
    /\ rt' = [stage |-> "decoded", urls |-> rt.urls, event |-> rt.event,
              shift |-> from_event(rt.event)]
    /\ UNCHANGED <<reconcileVars, lp, scrape>>

NextRoundTrip == Encode \/ Decode

SpecRoundTrip == InitRoundTrip /\ [][NextRoundTrip]_vars

(***************************************************************************)
(* Label normalisation on raw label texts.                                 *)
(***************************************************************************)
MaxLabelLen == 5

LabelChars == {"CARROT", "BROOM", " ", "a", "b"}

\* the raw label of the specification's example
ExampleLabelText ==
    <<"CARROT", " ", "G", "e", "n", "e", "r", "a", "l", " ",
      "V", "o", "l", "u", "n", "t", "e", "e", "r", " ", "BROOM">>

LabelTexts == UNION { [1..n -> LabelChars] : n \in 0..MaxLabelLen } \cup {ExampleLabelText}

InitLabel ==
    /\ ReconcileOff
    /\ rt = Idle
    /\ scrape = Idle
    /\ \E raw \in LabelTexts : lp = [stage |-> "input", raw |-> raw]

\* src/main.py:152-157
NormalizeLabel ==
    /\ lp.stage = "input"
    /\ lp' = [stage |-> "done", raw |-> lp.raw, label |-> normalize_label(lp.raw)]
    /\ UNCHANGED <<reconcileVars, rt, scrape>>

NextLabel == NormalizeLabel

SpecLabel == InitLabel /\ [][NextLabel]_vars

(***************************************************************************)
(* What the properties speak of.                                           *)
(***************************************************************************)
KeyOf(event) == FoodCoopShiftKey(event.start, event.summary)

ScrapedKeys == {shifts[k].key : k \in 1..Len(shifts)}

\* the urls of a key, merged over every scraped shift of that key
MergedUrls(key) == UNION {shifts[k].urls : k \in {n \in 1..Len(shifts) : shifts[n].key = key}}

\* the positions in calls of the calls of operation op on an event of the given id
CallsOn(op, id) == {k \in 1..Len(calls) : calls[k].op = op /\ calls[k].event.id = id}

\* the positions in calls of the calls of operation op on an event of the given key
CallsFor(op, key) == {k \in 1..Len(calls) : calls[k].op = op /\ KeyOf(calls[k].event) = key}

\* a run has completed
Completed == pc = "done"

\* the run before the completed one completed too
CompletedTwice ==
    /\ Completed
    /\ Len(outcomes) >= 2
    /\ outcomes[Len(outcomes) - 1] = "done"

\* C1: after a completed run the keys of the calendar's events are the scraped
\* keys, and the urls decoded from each event's description are the scraped
\* urls of its key, merged over the scraped shifts of that key.
C1_CalendarReflectsScrape ==
    Completed =>
        /\ {KeyOf(e) : e \in calendar} = ScrapedKeys
        /\ \A e \in calendar : from_event(e).urls = MergedUrls(KeyOf(e))

\* C2: the second of two completed runs in succession on the same scraped list
\* issues no add_event, delete_event or update_event call.
C2_SecondRunIssuesNothing == CompletedTwice => calls = <<>>

\* C3: after a completed run no two events of the calendar have the same key.
C3_NoTwoEventsOfOneKey ==
    Completed => \A a, b \in calendar : KeyOf(a) = KeyOf(b) => a = b

\* C4: scraped shifts of one key are reduced to one shift whose urls are the
\* union of theirs; that shift is what is added, or compared with and written to
\* the existing event.
C4_MergedByKey ==
    pc \in {"add", "remove", "update", "done"} =>
        /\ \A k \in 1..Len(parsed_shifts_for_key) :
              parsed_shifts_for_key[k].shift.urls = MergedUrls(parsed_shifts_for_key[k].key)
        /\ \A k \in 1..Len(shifts_to_add) :
              shifts_to_add[k].urls = MergedUrls(shifts_to_add[k].key)
        /\ \A a, b \in 1..Len(shifts_to_add) :
              shifts_to_add[a].key = shifts_to_add[b].key => a = b

\* C5: decoding the description built of a set of urls yields that set.
C5_RoundTrip == rt.stage = "decoded" => rt.shift.urls = rt.urls

RECURSIVE Tokens(_)
\* the whitespace-delimited tokens of a text
Tokens(s) ==
    LET a == FirstNotIn(s, Whitespace, 1)
        b == FirstNotIn(s, CharsOf(s) \ Whitespace, a)
    IN  IF a > Len(s) THEN <<>>
        ELSE <<SubSeq(s, a, b - 1)>> \o Tokens(SubSeq(s, b, Len(s)))

\* the tokens of a raw label once the leading glyphs are stripped
TokensAfterGlyph(raw) == Tokens(lstrip(strip(raw), {"CARROT"}))

BroomGeneralVolunteer ==
    <<"BROOM", " ", "G", "e", "n", "e", "r", "a", "l", " ",
      "V", "o", "l", "u", "n", "t", "e", "e", "r">>

BroomVolunteer == <<"BROOM", " ", "V", "o", "l", "u", "n", "t", "e", "e", "r">>

\* C6 as stated: the example's raw label is normalised to "BROOM General
\* Volunteer", and in general the last token moves to the front and every token
\* before it is kept after it, in order.
C6_KeepsEveryWord ==
    lp.stage = "done" =>
        /\ lp.raw = ExampleLabelText => lp.label = BroomGeneralVolunteer
        /\ LET toks == TokensAfterGlyph(lp.raw)
           IN  lp.label /= ValueError =>
                 Tokens(lp.label) = <<toks[Len(toks)]>> \o SubSeq(toks, 1, Len(toks) - 1)

\* C6 amended: the first token after the leading glyphs is discarded, the last
\* token moves to the front and the tokens between them are kept after it, in
\* order, separated from it by one space; the example's raw label is normalised
\* to "BROOM Volunteer"; a raw label of fewer than three tokens raises ValueError.
C6_DiscardsFirstToken ==
    lp.stage = "done" =>
        /\ lp.raw = ExampleLabelText => lp.label = BroomVolunteer
        /\ LET toks == TokensAfterGlyph(lp.raw)
               n    == Len(toks)
           IN  IF n < 3 THEN lp.label = ValueError
               ELSE /\ lp.label /= ValueError
                    /\ Tokens(lp.label) = <<toks[n]>> \o SubSeq(toks, 2, n - 1)
                    /\ SubSeq(lp.label, 1, Len(toks[n]) + 1) = toks[n] \o <<" ">>
                    /\ lp.label[Len(toks[n]) + 2] \notin Whitespace

\* the example's raw label has been normalised
C6_Witness == lp.stage = "done" /\ lp.raw = ExampleLabelText /\ lp.label = BroomVolunteer

\* the description lists exactly the given urls, in some order
Lists(description, label, urls) ==
    \E order \in Orders(urls) : description = description_of(label, order)

\* C7: a completed run has issued exactly one add_event for every scraped key
\* absent from the existing map, the event made of the key and of its urls, and
\* none for a key of the map; one scraped shift on an empty calendar makes for
\* one add_event and no other call.
C7_OneAddPerAbsentKey ==
    Completed =>
        /\ \A key \in ScrapedKeys :
              IF HasKey(existing_shifts_for_key, key)
              THEN CallsFor("add_event", key) = {}
              ELSE /\ Cardinality(CallsFor("add_event", key)) = 1
                   /\ \A k \in CallsFor("add_event", key) :
                        /\ calls[k].event.end = key.start_time + FOODCOOP_SHIFT_LENGTH
                        /\ calls[k].event.location = GOOGLE_FOODCOOP_LOCATION
                        /\ Lists(calls[k].event.description, key.label, MergedUrls(key))
        /\ (Len(shifts) = 1 /\ events = <<>>) => (Len(calls) = 1 /\ calls[1].op = "add_event")

\* the existing map and the scraped list differ by one key of the map, and no
\* event was flagged as a duplicate
OnlyOneKeyGone(x) ==
    /\ x \in 1..Len(existing_shifts_for_key)
    /\ existing_shifts_for_key[x].key \notin ScrapedKeys
    /\ Len(events) = Len(existing_shifts_for_key)
    /\ {existing_shifts_for_key[n].shift : n \in 1..Len(existing_shifts_for_key) \ {x}}
         = {shifts[k] : k \in 1..Len(shifts)}

\* C8: a completed run has issued exactly one delete_event for the event of
\* every key of the existing map that is not scraped, which is then gone from
\* the calendar, and none for the event of a key of the map that is scraped,
\* which is still stored; where the map and the scrape differ by one key of the
\* map only, that delete_event is the only call of the run.
C8_Removals ==
    Completed =>
        /\ \A n \in 1..Len(existing_shifts_for_key) :
              LET entry == existing_shifts_for_key[n]
              IN  IF entry.key \notin ScrapedKeys
                  THEN /\ Cardinality(CallsOn("delete_event", entry.event.id)) = 1
                       /\ \A k \in CallsOn("delete_event", entry.event.id) : calls[k].event = entry.event
                       /\ ~Stored(calendar, entry.event)
                  ELSE /\ CallsOn("delete_event", entry.event.id) = {}
                       /\ Stored(calendar, entry.event)
        /\ \A x \in 1..Len(existing_shifts_for_key) :
              OnlyOneKeyGone(x) =>
                  calls = <<Call("delete_event", existing_shifts_for_key[x].event)>>

\* a run with one key of the map gone from the scrape, nothing else to do, has completed
C8_Witness ==
    /\ Completed
    /\ \E x \in 1..Len(existing_shifts_for_key) :
          /\ OnlyOneKeyGone(x)
          /\ Len(existing_shifts_for_key) = 2
          /\ Len(calls) = 1

\* C9: a completed run has issued one update_event on the existing event of a
\* key both scraped and in the map exactly if the existing urls differ from the
\* scraped urls of the key; the description written lists the scraped urls, and
\* no add_event or delete_event was issued for the key.
C9_UpdateIffUrlsDiffer ==
    Completed =>
        \A n \in 1..Len(existing_shifts_for_key) :
            LET entry   == existing_shifts_for_key[n]
                updates == CallsOn("update_event", entry.event.id)
            IN  entry.key \in ScrapedKeys =>
                  /\ Cardinality(updates) = IF entry.shift.urls /= MergedUrls(entry.key) THEN 1 ELSE 0
                  /\ \A k \in updates :
                        Lists(calls[k].event.description, entry.key.label, MergedUrls(entry.key))
                  /\ CallsFor("add_event", entry.key) = {}
                  /\ CallsFor("delete_event", entry.key) = {}

\* the positions in events of the events of a key
SeenAt(key) == {n \in 1..Len(events) : KeyOf(events[n]) = key}

\* the position in events of the first event of a key
FirstSeenAt(key) == CHOOSE n \in SeenAt(key) : \A m \in SeenAt(key) : n <= m

\* the existing map holds one entry per key
OneEntryPerKey ==
    \A m, n \in 1..Len(existing_shifts_for_key) :
        existing_shifts_for_key[m].key = existing_shifts_for_key[n].key => m = n

\* C10 as stated: of two events of one key that get_events returned, a completed
\* run has deleted the later one and not the earlier one, which the map holds
\* with the shift decoded from it; the map holds one entry per key.
C10_DeletesExactlyOneOfTwo ==
    Completed =>
        /\ OneEntryPerKey
        /\ \A a, b \in 1..Len(events) :
              (a < b /\ SeenAt(KeyOf(events[a])) = {a, b}) =>
                  /\ Cardinality(CallsOn("delete_event", events[b].id)) = 1
                  /\ CallsOn("delete_event", events[a].id) = {}
                  /\ Get(existing_shifts_for_key, KeyOf(events[a])).event = events[a]
                  /\ Get(existing_shifts_for_key, KeyOf(events[a])).shift = from_event(events[a])

\* C10 amended: of the events of one key that get_events returned, a completed
\* run has deleted every one but the first once, and the first one too, once,
\* exactly if the key is not scraped; the map holds the first one with the
\* shift decoded from it, and one entry per key.
C10_DeletesLaterSeen ==
    Completed =>
        /\ OneEntryPerKey
        /\ \A b \in 1..Len(events) :
              LET key   == KeyOf(events[b])
                  first == FirstSeenAt(key)
              IN  /\ HasKey(existing_shifts_for_key, key)
                  /\ Get(existing_shifts_for_key, key).event = events[first]
                  /\ Get(existing_shifts_for_key, key).shift = from_event(events[first])
                  /\ Cardinality(CallsOn("delete_event", events[b].id))
                        = IF b = first /\ key \in ScrapedKeys THEN 0 ELSE 1
                  /\ Stored(calendar, events[b]) <=> (b = first /\ key \in ScrapedKeys)

\* a run on a calendar holding two events of one scraped key has completed
C10_Witness ==
    /\ Completed
    /\ \E a, b \in 1..Len(events) :
          /\ a < b
          /\ KeyOf(events[a]) = KeyOf(events[b])
          /\ KeyOf(events[a]) \in ScrapedKeys
          /\ Cardinality(CallsOn("delete_event", events[b].id)) = 1
          /\ Stored(calendar, events[a])

(***************************************************************************)
(* Order and targets of the calendar calls of one run.                     *)
(***************************************************************************)
\* the events the existing map holds
MapEvents == {existing_shifts_for_key[n].event : n \in 1..Len(existing_shifts_for_key)}

\* the call deletes an event the read loop flagged as a duplicate
IsDuplicateDelete(call) == call.op = "delete_event" /\ call.event \notin MapEvents

\* the call deletes the event the existing map holds for a key
IsRemoval(call) == call.op = "delete_event" /\ call.event \in MapEvents

\* the stage of a run that issues the call: the read loop, the additions, the
\* removals, the updates
Rank(call) ==
    IF IsDuplicateDelete(call) THEN 0
    ELSE IF call.op = "add_event" THEN 1
    ELSE IF IsRemoval(call) THEN 2
    ELSE 3

LastCall == calls[Len(calls)]

\* the step issues an update_event call
IssuesUpdate ==
    /\ Len(calls') = Len(calls) + 1
    /\ calls'[Len(calls')].op = "update_event"

\* C15: a step that issues an update_event changes, of the calendar, only the
\* description of the event it targets: the event keeps its id, summary, start,
\* end and location, and every other event is stored after the step exactly as
\* before it.
C15_UpdateFrame ==
    [][ IssuesUpdate =>
          LET target == calls'[Len(calls')].event
          IN  /\ {e \in calendar : e.id /= target.id} = {e \in calendar' : e.id /= target.id}
              /\ \A e \in calendar : e.id = target.id =>
                    \E w \in calendar' :
                        /\ \A other \in calendar' : other.id = target.id => other = w
                        /\ w = [e EXCEPT !.description = w.description]
                        /\ w.description = target.description
      ]_vars

\* a run has updated an event made by hand, among two events: its description
\* lists the scraped urls, its location is still its own
C15_Witness ==
    /\ calls /= <<>>
    /\ LastCall.op = "update_event"
    /\ Cardinality(calendar) = 2
    /\ \E e \in calendar :
          /\ e.id = LastCall.event.id
          /\ e.location = ManualLocation
          /\ Lists(e.description, e.summary, MergedUrls(KeyOf(e)))

\* every event get_events returned is in the existing map, none was flagged as
\* a duplicate, and the shifts of the map are the scraped shifts, keys and urls
MapEqualsScrape ==
    /\ Len(events) = Len(existing_shifts_for_key)
    /\ {existing_shifts_for_key[n].shift : n \in 1..Len(existing_shifts_for_key)}
         = {shifts[k] : k \in 1..Len(shifts)}

\* C17: a completed run whose existing map equals the scraped set, one event
\* per scraped shift and no other event, has issued no add_event, delete_event
\* or update_event, and the calendar holds the events it held at the start.
C17_FixedPoint ==
    (Completed /\ MapEqualsScrape) =>
        /\ calls = <<>>
        /\ calendar = {events[n] : n \in 1..Len(events)}

\* a run on a calendar of two events that are the two scraped shifts has completed
C17_Witness ==
    /\ Completed
    /\ MapEqualsScrape
    /\ Len(existing_shifts_for_key) = 2
    /\ Len(shifts) = 2
    /\ Cardinality(calendar) = 2

\* C20: of the calls a run has issued, no two target the same event: no event
\* is deleted twice, updated twice, or deleted and updated, and an event the
\* run added is neither deleted nor updated by it.
C20_DisjointTargets ==
    \A a, b \in 1..Len(calls) : calls[a].event.id = calls[b].event.id => a = b

\* a completed run has deleted two events of one key, one as a duplicate and
\* one as the event of a key no longer scraped
C20_Witness ==
    /\ Completed
    /\ \E a, b \in 1..Len(calls) :
          /\ IsDuplicateDelete(calls[a])
          /\ IsRemoval(calls[b])
          /\ KeyOf(calls[a].event) = KeyOf(calls[b].event)

(***************************************************************************)
(* Runs in which a call of the remote calendar raises.  Nothing in         *)
(* reconcile_shifts_to_google_calendar or main catches the exception: the  *)
(* run ends where the call was issued.                                     *)
(***************************************************************************)
\* the stored events as the run read them
EventsRead == {events[n] : n \in 1..Len(events)}

\* the call raises: it has no effect and the exception ends the run.  A run
\* keeps nothing of the runs before it, so the failure is put in the first
\* run, which starts from any calendar.
Raise(call) ==
    /\ run = 1
    /\ calls' = Append(calls, call)
    /\ pc' = "aborted"
    /\ outcomes' = Append(outcomes, "aborted")
    /\ UNCHANGED <<calendar, nextId, shifts, run, events, i, existing_shifts_for_key,
                   parsed_shifts_for_key, shifts_to_add, events_to_remove,
                   shifts_to_update, rt, lp, scrape>>

\* src/main.py:236: get_events() raises
GetEventsFails ==
    /\ pc = "idle"
    /\ run = 0
    /\ run' = 1
    /\ events' = <<>>
    /\ i' = 1
    /\ existing_shifts_for_key' = <<>>
    /\ parsed_shifts_for_key' = <<>>
    /\ shifts_to_add' = <<>>
    /\ events_to_remove' = <<>>
    /\ shifts_to_update' = <<>>
    /\ calls' = <<>>
    /\ pc' = "aborted"
    /\ outcomes' = Append(outcomes, "aborted")
    /\ UNCHANGED <<calendar, nextId, shifts, rt, lp, scrape>>

\* src/main.py:240: delete_event of a duplicate raises
DeleteDuplicateFails ==
    /\ pc = "read"
    /\ i <= Len(events)
    /\ events[i].description /= NoDescription
    /\ HasKey(existing_shifts_for_key, from_event(events[i]).key)
    /\ Raise(Call("delete_event", events[i]))

\* an add_event that raises, were the run to undo what it did before
AddEventFailsRolledBack ==
    /\ pc = "add"
    /\ shifts_to_add /= <<>>
    /\ run = 1
    /\ \E order \in Orders(Head(shifts_to_add).urls) :
         calls' = Append(calls, Call("add_event",
                    [create_event_from_shift(Head(shifts_to_add), order) EXCEPT !.id = nextId]))
    /\ calendar' = EventsRead
    /\ pc' = "aborted"
    /\ outcomes' = Append(outcomes, "aborted")
    /\ UNCHANGED <<nextId, shifts, run, events, i, existing_shifts_for_key,
                   parsed_shifts_for_key, shifts_to_add, events_to_remove,
                   shifts_to_update, rt, lp, scrape>>

\* src/main.py:256: add_event raises
AddEventFails ==
    /\ pc = "add"
    /\ shifts_to_add /= <<>>
    /\ \E order \in Orders(Head(shifts_to_add).urls) :
         Raise(Call("add_event",
                    [create_event_from_shift(Head(shifts_to_add), order) EXCEPT !.id = nextId]))

\* src/main.py:267: delete_event of a removal raises
DeleteEventFails ==
    /\ pc = "remove"
    /\ events_to_remove /= <<>>
    /\ Raise(Call("delete_event", Head(events_to_remove)))

\* src/main.py:279-280: update_event raises
UpdateEventFails ==
    /\ pc = "update"
    /\ shifts_to_update /= <<>>
    /\ \E order \in Orders(Head(shifts_to_update).shift.urls) :
         Raise(Call("update_event",
                    [Head(shifts_to_update).event EXCEPT
                       !.description = create_event_from_shift(
                                           Head(shifts_to_update).shift, order).description]))

\* the first run, or the run that follows an aborted one
StartOrRetryRun == StartRun /\ (run = 0 \/ pc = "aborted")

NextFaulty ==
    \/ StartOrRetryRun
    \/ ReadNoDescription
    \/ ReadDuplicate
    \/ ReadRecord
    \/ PlanAdditions
    \/ AddEvent
    \/ PlanRemovals
    \/ DeleteEvent
    \/ PlanUpdates
    \/ UpdateEvent
    \/ Finish
    \/ GetEventsFails
    \/ DeleteDuplicateFails
    \/ AddEventFails
    \/ DeleteEventFails
    \/ UpdateEventFails

SpecFaulty == Init /\ [][NextFaulty]_vars

RECURSIVE Applied(_, _)
\* the calendar once the calls cs, in order, have taken effect on cal
Applied(cal, cs) ==
    IF cs = <<>> THEN cal
    ELSE LET call == Head(cs)
             next == IF call.op = "add_event" THEN cal \cup {call.event}
                     ELSE IF call.op = "delete_event" THEN delete_event(cal, call.event)
                     ELSE update_event(cal, call.event)
         IN  Applied(next, Tail(cs))

\* the step is the one in which a call of the remote calendar raises
Aborts == pc /= "aborted" /\ pc' = "aborted"

\* C16: the step in which a call of the remote calendar raises leaves the
\* calendar as it is, which is the calendar the run read with every call that
\* returned before applied to it, none undone; and the only step that follows
\* is the start of another run, so the aborted run issues no further call.
C16_StopsWithoutCompensation ==
    [][ /\ Aborts => calendar' = calendar
        /\ (Aborts /\ calls' /= <<>>) =>
              calendar' = Applied(EventsRead, SubSeq(calls', 1, Len(calls') - 1))
        /\ pc = "aborted" => (run' = run + 1 /\ calls' = <<>>)
      ]_vars

\* a run has added an event and was aborted by the delete_event that followed:
\* the added event is stored, and so is the event that was to be deleted
C16_Witness ==
    /\ pc = "aborted"
    /\ Len(calls) = 2
    /\ calls[1].op = "add_event"
    /\ Stored(calendar, calls[1].event)
    /\ calls[2].op = "delete_event"
    /\ Stored(calendar, calls[2].event)

\* the run before the completed one was aborted by a call that raised
CompletedAfterAbort ==
    /\ Completed
    /\ Len(outcomes) >= 2
    /\ outcomes[Len(outcomes) - 1] = "aborted"

\* C19: after a run that completes next to an aborted one, on the same scraped
\* list, the calendar holds one event for every scraped key, whose description
\* lists the scraped urls of the key, and no event of another key.
C19_RetryRepairs ==
    CompletedAfterAbort =>
        /\ \A key \in ScrapedKeys : Cardinality({e \in calendar : KeyOf(e) = key}) = 1
        /\ \A e \in calendar :
              /\ KeyOf(e) \in ScrapedKeys
              /\ Lists(e.description, e.summary, MergedUrls(KeyOf(e)))

(***************************************************************************)
(* The scraper: parse_shifts_from_calendar_date_locator on the raw data of *)
(* one day fragment, {dateText, shifts: [{href, time, label}]}.            *)
(***************************************************************************)
\* s.split(): the whitespace-delimited tokens
split(s) == Tokens(s)

IsDigit(c) == \E d \in 1..Len(Digits) : Digits[d] = c

DigitValue(c) == (CHOOSE d \in 1..Len(Digits) : Digits[d] = c) - 1

RECURSIVE int(_)
\* the number a run of digits writes
int(ds) == IF Len(ds) = 0 THEN 0
           ELSE 10 * int(SubSeq(ds, 1, Len(ds) - 1)) + DigitValue(ds[Len(ds)])

\* a run of at least lo and at most hi digits
IsNumber(ds, lo, hi) ==
    /\ Len(ds) >= lo
    /\ Len(ds) <= hi
    /\ \A k \in 1..Len(ds) : IsDigit(ds[k])

RECURSIVE fields(_, _)
\* the parts of s between the occurrences of the character sep
fields(s, sep) ==
    LET k == FirstNotIn(s, CharsOf(s) \ {sep}, 1)
    IN  IF k > Len(s) THEN <<s>>
        ELSE <<SubSeq(s, 1, k - 1)>> \o fields(SubSeq(s, k + 1, Len(s)), sep)

IsLeap(year) == year % 4 = 0 /\ (year % 100 /= 0 \/ year % 400 = 0)

DaysInMonth(year, month) ==
    IF month = 2 THEN (IF IsLeap(year) THEN 29 ELSE 28)
    ELSE IF month \in {4, 6, 9, 11} THEN 30 ELSE 31

RECURSIVE DaysBeforeMonth(_, _)
DaysBeforeMonth(year, month) ==
    IF month = 1 THEN 0
    ELSE DaysBeforeMonth(year, month - 1) + DaysInMonth(year, month - 1)

\* date.toordinal(): the days from 0001-01-01, which is day 1
toordinal(year, month, day) ==
    LET y == year - 1
    IN  y * 365 + (y \div 4) - (y \div 100) + (y \div 400) + DaysBeforeMonth(year, month) + day

\* s matches the format "%m/%d/%Y %I:%M%p" and names a date; strptime raises
\* ValueError where it does not
IsDatetime(s) ==
    LET parts == split(s)
    IN  /\ Len(parts) = 2
        /\ Len(s) = Len(parts[1]) + 1 + Len(parts[2])
        /\ LET date  == fields(parts[1], "/")
               clock == fields(parts[2], ":")
           IN  /\ Len(date) = 3
               /\ Len(clock) = 2
               /\ IsNumber(date[1], 1, 2)
               /\ IsNumber(date[2], 1, 2)
               /\ IsNumber(date[3], 4, 4)
               /\ IsNumber(clock[1], 1, 2)
               /\ Len(clock[2]) >= 3
               /\ IsNumber(SubSeq(clock[2], 1, Len(clock[2]) - 2), 1, 2)
               /\ clock[2][Len(clock[2]) - 1] \in {"A", "a", "P", "p"}
               /\ clock[2][Len(clock[2])] \in {"M", "m"}
               /\ int(date[1]) \in 1..12
               /\ int(date[3]) >= 1
               /\ int(date[2]) >= 1
               /\ int(date[2]) <= DaysInMonth(int(date[3]), int(date[1]))
               /\ int(clock[1]) \in 1..12
               /\ int(SubSeq(clock[2], 1, Len(clock[2]) - 2)) <= 59

\* datetime.strptime(s, "%m/%d/%Y %I:%M%p") of an s that matches: the minutes
\* from 0001-01-01 00:00 of the wall-clock time s writes.
\* replace(tzinfo=...) gives every start_time the same zone, so two start
\* times are equal exactly if their wall clocks are.
strptime(s) ==
    LET parts  == split(s)
        date   == fields(parts[1], "/")
        clock  == fields(parts[2], ":")
        hour   == int(clock[1])
        minute == int(SubSeq(clock[2], 1, Len(clock[2]) - 2))
        pm     == clock[2][Len(clock[2]) - 1] \in {"P", "p"}
    IN  (toordinal(int(date[3]), int(date[1]), int(date[2])) - 1) * 1440
        + ((hour % 12) + (IF pm THEN 12 ELSE 0)) * 60 + minute

\* the outcome of a coroutine: the value it returns or the exception it raises
Returned(value) == [ok |-> TRUE, value |-> value]

Raised(error) == [ok |-> FALSE, error |-> error]

\* url = f"{FOODCOOP_URL}{url.strip().rstrip('/')}" of a href
resolve(href) == FOODCOOP_URL \o rstrip(strip(strip(href)), {"/"})

\* line 164 as an assignment: the url replaces the urls the key had
setdefault_assign(d, key, url) ==
    IF HasKey(d, key)
    THEN [k \in 1..Len(d) |-> IF d[k].key = key THEN [key |-> key, urls |-> <<url>>] ELSE d[k]]
    ELSE Append(d, [key |-> key, urls |-> <<url>>])

\* shifts_for_key.setdefault(key, []).append(url)
setdefault_append(d, key, url) ==
    IF HasKey(d, key)
    THEN [k \in 1..Len(d) |->
            IF d[k].key = key THEN [key |-> key, urls |-> Append(d[k].urls, url)] ELSE d[k]]
    ELSE Append(d, [key |-> key, urls |-> <<url>>])

RECURSIVE parse_entries_without_assert(_, _, _)
\* lines 146-164 without the assert of line 148
parse_entries_without_assert(date, entries, d) ==
    IF entries = <<>> THEN Returned(d)
    ELSE LET shift      == Head(entries)
             start_time == strip(shift.time)
             label      == normalize_label(shift.label)
             text       == date \o <<" ">> \o start_time
         IN  IF label = ValueError THEN Raised("ValueError")
             ELSE IF ~IsDatetime(text) THEN Raised("ValueError")
             ELSE parse_entries_without_assert(
                      date, Tail(entries),
                      setdefault_append(d, FoodCoopShiftKey(strptime(text), label),
                                        resolve(shift.href)))

RECURSIVE parse_entries(_, _, _)
\* src/main.py:146-164: the loop over the raw entries still to read, with the
\* dict built so far: the dict at the end, or the error raised on the way
parse_entries(date, entries, d) ==
    IF entries = <<>> THEN Returned(d)
    ELSE LET shift      == Head(entries)
             url        == strip(shift.href)
             start_time == strip(shift.time)
             label      == normalize_label(shift.label)
             text       == date \o <<" ">> \o start_time
         IN  IF url = <<>> THEN Raised("AssertionError")
             ELSE IF label = ValueError THEN Raised("ValueError")
             ELSE IF ~IsDatetime(text) THEN Raised("ValueError")
             ELSE parse_entries(date, Tail(entries),
                                setdefault_append(d, FoodCoopShiftKey(strptime(text), label),
                                                  resolve(shift.href)))

\* parse_shifts_from_calendar_date_locator(shift_day), of the raw data the
\* page evaluates for the day: the list of shifts, or the error raised
parse_shifts_from_calendar_date_locator(day_data) ==
    LET date_parts == split(strip(day_data.dateText))
    IN  IF Len(date_parts) < 2 THEN Raised("AssertionError")
        ELSE LET shifts_for_key == parse_entries(date_parts[Len(date_parts)], day_data.shifts, <<>>)
             IN  IF ~shifts_for_key.ok THEN shifts_for_key
                 ELSE LET d == shifts_for_key.value
                      IN  Returned([k \in 1..Len(d) |->
                                      FoodCoopShift(d[k].key, {d[k].urls[n] : n \in 1..Len(d[k].urls)})])

(***************************************************************************)
(* The parse of one day fragment, for the raw data a page can hold.        *)
(***************************************************************************)
MaxEntries == 2

\* date headers: weekday and date, the date alone, none
DateTexts ==
    { <<"F", "r", "i", " ", "1", "1", "/", "0", "6", "/", "2", "0", "2", "6">>,
      <<"1", "1", "/", "0", "6", "/", "2", "0", "2", "6">>,
      <<>> }

\* hrefs: two booking links, the first one also with a trailing slash, none
Hrefs == { <<"/", "1">>, <<"/", "1", "/">>, <<"/", "2">>, <<>> }

\* times: nine in the morning written twice, noon
Times ==
    { <<"9", ":", "0", "0", "A", "M">>,
      <<"0", "9", ":", "0", "0", "a", "m">>,
      <<"1", "2", ":", "0", "0", "P", "M">> }

\* label texts: the time, the shift name, the glyph
RawLabels == { <<"t", " ", "C", " ", "BROOM">>, <<"t", " ", "D", " ", "BROOM">> }

RawEntries == [href : Hrefs, time : Times, label : RawLabels]

DayData == UNION { [dateText : DateTexts, shifts : [1..n -> RawEntries]] : n \in 0..MaxEntries }

InitParser ==
    /\ ReconcileOff
    /\ rt = Idle
    /\ lp = Idle
    /\ \E day_data \in DayData : scrape = [stage |-> "fragment", day_data |-> day_data]

\* src/main.py:121-171
ParseFragment ==
    /\ scrape.stage = "fragment"
    /\ scrape' = [stage |-> "parsed", day_data |-> scrape.day_data,
                  outcome |-> parse_shifts_from_calendar_date_locator(scrape.day_data)]
    /\ UNCHANGED <<reconcileVars, rt, lp>>

NextParser == ParseFragment

SpecParser == InitParser /\ [][NextParser]_vars

\* a fragment has been parsed and the parse returned a list of shifts
Parsed == scrape.stage = "parsed" /\ scrape.outcome.ok

\* the (start_time, label) of the n-th raw entry of the parsed fragment
RawKey(n) ==
    LET date_parts == split(strip(scrape.day_data.dateText))
        shift      == scrape.day_data.shifts[n]
    IN  FoodCoopShiftKey(
            strptime(date_parts[Len(date_parts)] \o <<" ">> \o strip(shift.time)),
            normalize_label(shift.label))

\* the raw entries of the parsed fragment that have the key
RawEntriesOf(key) == {n \in 1..Len(scrape.day_data.shifts) : RawKey(n) = key}

\* C13: the list a fragment's parse returns holds exactly one shift for every
\* (start_time, label) of the fragment's raw entries and no other shift, and
\* the urls of that shift are exactly the resolved hrefs of the raw entries of
\* that (start_time, label).
C13_WithinFragmentMerge ==
    Parsed =>
        LET list == scrape.outcome.value
        IN  /\ {list[k].key : k \in 1..Len(list)}
                 = {RawKey(n) : n \in 1..Len(scrape.day_data.shifts)}
            /\ \A a, b \in 1..Len(list) : list[a].key = list[b].key => a = b
            /\ \A k \in 1..Len(list) :
                  list[k].urls = {resolve(scrape.day_data.shifts[n].href) :
                                    n \in RawEntriesOf(list[k].key)}

\* a fragment of two raw entries of one (start_time, label), the time written
\* differently and the hrefs resolving to two urls, parsed to one shift of two urls
C13_Witness ==
    /\ Parsed
    /\ Len(scrape.day_data.shifts) = 2
    /\ scrape.day_data.shifts[1].time /= scrape.day_data.shifts[2].time
    /\ Len(scrape.outcome.value) = 1
    /\ Cardinality(scrape.outcome.value[1].urls) = 2

\* C18: every shift of the list a fragment's parse returns has at least one
\* url, and the parse of a fragment with a raw entry whose href is empty
\* returns no list: it raises.
C18_UrlsNeverEmpty ==
    scrape.stage = "parsed" =>
        /\ scrape.outcome.ok =>
              \A k \in 1..Len(scrape.outcome.value) : scrape.outcome.value[k].urls /= {}
        /\ (\E n \in 1..Len(scrape.day_data.shifts) :
               strip(scrape.day_data.shifts[n].href) = <<>>) => ~scrape.outcome.ok

\* the parse of a fragment whose second raw entry has an empty href, the first
\* one being well formed, raised the assertion's error
C18_Witness ==
    /\ scrape.stage = "parsed"
    /\ Len(scrape.day_data.shifts) = 2
    /\ scrape.day_data.shifts[1].href /= <<>>
    /\ scrape.day_data.shifts[2].href = <<>>
    /\ Len(split(scrape.day_data.dateText)) = 2
    /\ ~scrape.outcome.ok
    /\ scrape.outcome.error = "AssertionError"

(***************************************************************************)
(* main: parse_shifts_from_calendar, then the reconciliation.  Every page  *)
(* is a task and so is every day fragment of a page; asyncio.as_completed  *)
(* hands their results on in the order in which they complete.             *)
(***************************************************************************)
MaxPages == 2

MaxFragments == 2

\* a well-formed raw entry for the link href
RawEntry(href) ==
    [href |-> href, time |-> <<"9", ":", "0", "0", "A", "M">>,
     label |-> <<"t", " ", "C", " ", "BROOM">>]

FridayText == <<"F", "r", "i", " ", "1", "1", "/", "0", "6", "/", "2", "0", "2", "6">>

\* the day fragments a page can hold: two that list one shift under different
\* links, one whose date header is the date alone, one whose entry has no href
ScrapeFragmentSeq ==
    << [dateText |-> FridayText, shifts |-> <<RawEntry(<<"/", "1">>)>>],
       [dateText |-> FridayText, shifts |-> <<RawEntry(<<"/", "2">>)>>],
       [dateText |-> <<"1", "1", "/", "0", "6", "/", "2", "0", "2", "6">>,
        shifts |-> <<RawEntry(<<"/", "1">>)>>],
       [dateText |-> FridayText, shifts |-> <<RawEntry(<<>>)>>] >>

\* the fragments of one page, in an order that does not matter
PageContents ==
    UNION { { [k \in 1..n |-> ScrapeFragmentSeq[g[k]]] :
                g \in {h \in [1..n -> 1..Len(ScrapeFragmentSeq)] :
                         \A a, b \in 1..n : a <= b => h[a] <= h[b]} } :
            n \in 0..MaxFragments }

RECURSIVE Flatten(_)
\* the concatenation of a list of lists
Flatten(lists) == IF lists = <<>> THEN <<>> ELSE Head(lists) \o Flatten(Tail(lists))

\* the pages of the calendar: MaxPages pages of MaxFragments fragments in all
ScrapeContents ==
    {content \in [1..MaxPages -> PageContents] :
        Len(Flatten([p \in 1..MaxPages |-> content[p]])) <= MaxFragments}

\* the event of the shift of the first fragment, listing the url
ScrapeEvent(id, url) ==
    [create_event_from_shift(
         parse_shifts_from_calendar_date_locator(ScrapeFragmentSeq[1]).value[1], <<url>>)
       EXCEPT !.id = id]

\* the calendar when main starts: empty, holding the event of the first
\* fragment's shift, or holding that event and a second one of its key
ScrapeCalendars ==
    { {},
      { ScrapeEvent(1, resolve(<<"/", "1">>)) },
      { ScrapeEvent(1, resolve(<<"/", "1">>)), ScrapeEvent(2, resolve(<<"/", "2">>)) } }

InitScrape ==
    /\ calendar \in ScrapeCalendars
    /\ nextId = Cardinality(calendar) + 1
    /\ shifts = <<>>
    /\ run = 0
    /\ pc = "scrape"
    /\ events = <<>>
    /\ i = 1
    /\ existing_shifts_for_key = <<>>
    /\ parsed_shifts_for_key = <<>>
    /\ shifts_to_add = <<>>
    /\ events_to_remove = <<>>
    /\ shifts_to_update = <<>>
    /\ calls = <<>>
    /\ outcomes = <<>>
    /\ rt = Idle
    /\ lp = Idle
    /\ \E content \in ScrapeContents :
          scrape = [ stage     |-> "scraping",
                     content   |-> content,
                     pending   |-> content,
                     lists     |-> [p \in 1..MaxPages |-> <<>>],
                     collected |-> {},
                     shifts    |-> <<>> ]

\* s without its n-th element
Without(s, n) == SubSeq(s, 1, n - 1) \o SubSeq(s, n + 1, Len(s))

\* src/main.py:181-190: a fragment task of a page completes with a list, which
\* the page appends to its own
FragmentReturns ==
    /\ scrape.stage = "scraping"
    /\ \E p \in 1..MaxPages, n \in 1..MaxFragments :
         /\ n <= Len(scrape.pending[p])
         /\ LET outcome == parse_shifts_from_calendar_date_locator(scrape.pending[p][n])
            IN  /\ outcome.ok
                /\ scrape' = [scrape EXCEPT
                                !.pending[p] = Without(scrape.pending[p], n),
                                !.lists[p]   = scrape.lists[p] \o outcome.value]
    /\ UNCHANGED <<reconcileVars, rt, lp>>

\* a fragment task that raises, were the page to go on without the fragment
FragmentRaisesSkipped ==
    /\ scrape.stage = "scraping"
    /\ \E p \in 1..MaxPages, n \in 1..MaxFragments :
         /\ n <= Len(scrape.pending[p])
         /\ ~parse_shifts_from_calendar_date_locator(scrape.pending[p][n]).ok
         /\ scrape' = [scrape EXCEPT !.pending[p] = Without(scrape.pending[p], n)]
    /\ UNCHANGED <<reconcileVars, rt, lp>>

\* src/main.py:190, 205, 301: a fragment task completes with an exception;
\* the await in the page raises it, the await in parse_shifts_from_calendar
\* raises it from the page, and main ends with it.  The lists built so far
\* are dropped and reconcile_shifts_to_google_calendar is not called.
FragmentRaises ==
    /\ scrape.stage = "scraping"
    /\ \E p \in 1..MaxPages, n \in 1..MaxFragments :
         /\ n <= Len(scrape.pending[p])
         /\ LET outcome == parse_shifts_from_calendar_date_locator(scrape.pending[p][n])
            IN  /\ ~outcome.ok
                /\ scrape' = [scrape EXCEPT !.stage = "raised"]
    /\ UNCHANGED <<reconcileVars, rt, lp>>

\* src/main.py:192, 205: a page task returns its list once every fragment of
\* the page has completed, and parse_shifts_from_calendar appends it to its own
PageReturns ==
    /\ scrape.stage = "scraping"
    /\ \E p \in 1..MaxPages \ scrape.collected :
         /\ scrape.pending[p] = <<>>
         /\ scrape' = [scrape EXCEPT
                         !.collected = scrape.collected \cup {p},
                         !.shifts    = scrape.shifts \o scrape.lists[p]]
    /\ UNCHANGED <<reconcileVars, rt, lp>>

\* src/main.py:207, 301-311: every page has returned; main hands the list to
\* reconcile_shifts_to_google_calendar
Aggregated ==
    /\ scrape.stage = "scraping"
    /\ scrape.collected = 1..MaxPages
    /\ scrape' = [scrape EXCEPT !.stage = "reconciling"]
    /\ shifts' = scrape.shifts
    /\ pc' = "idle"
    /\ UNCHANGED <<calendar, nextId, run, events, i, existing_shifts_for_key,
                   parsed_shifts_for_key, shifts_to_add, events_to_remove,
                   shifts_to_update, calls, outcomes, rt, lp>>

\* the one run of main
StartOnlyRun == StartRun /\ run = 0

NextScrape ==
    \/ FragmentReturns
    \/ FragmentRaises
    \/ PageReturns
    \/ Aggregated
    \/ StartOnlyRun
    \/ ReadDuplicate
    \/ ReadRecord
    \/ PlanAdditions
    \/ AddEvent
    \/ PlanRemovals
    \/ DeleteEvent
    \/ PlanUpdates
    \/ UpdateEvent
    \/ Finish

SpecScrape == InitScrape /\ [][NextScrape]_vars

\* the fragment's date header has fewer than two tokens, or one of its raw
\* entries has an empty href
Malformed(day_data) ==
    \/ Len(split(strip(day_data.dateText))) < 2
    \/ \E n \in 1..Len(day_data.shifts) : strip(day_data.shifts[n].href) = <<>>

\* the malformed fragments among the fragments of the pages
MalformedIn(pages) ==
    {<<p, n>> \in (1..MaxPages) \X (1..MaxFragments) :
        n <= Len(pages[p]) /\ Malformed(pages[p][n])}

\* C14: where a fragment of a page is malformed, main never gets to the
\* reconciliation: as long as the scrape has not raised, a malformed fragment
\* is still to complete, so that the scrape ends by raising; no list of shifts
\* is handed on, no calendar call is issued and the calendar is as it was.
C14_FailFast ==
    (scrape.stage /= "idle" /\ MalformedIn(scrape.content) /= {}) =>
        /\ scrape.stage \in {"scraping", "raised"}
        /\ scrape.stage = "scraping" => MalformedIn(scrape.pending) /= {}
        /\ pc = "scrape"
        /\ shifts = <<>>
        /\ calls = <<>>
        /\ calendar \in ScrapeCalendars

\* the scrape raised on a malformed fragment after the shifts of another page
\* had been collected: they are handed to nobody
C14_Witness ==
    /\ scrape.stage = "raised"
    /\ MalformedIn(scrape.content) /= {}
    /\ scrape.shifts /= <<>>
    /\ shifts = <<>>
    /\ calls = <<>>

\* the lists a page can return for its fragments, none of which raises: the
\* lists of the fragments, concatenated in an order of completion
PageLists(fragments) ==
    {Flatten([k \in 1..Len(fragments) |->
                parse_shifts_from_calendar_date_locator(fragments[order[k]]).value]) :
        order \in Orders(1..Len(fragments))}

\* the lists parse_shifts_from_calendar can return for the pages: the lists of
\* the pages, concatenated in an order of completion
Aggregations(content) ==
    {Flatten([k \in 1..MaxPages |-> lists[order[k]]]) :
        order \in Orders(1..MaxPages),
        lists \in {l \in [1..MaxPages -> UNION {PageLists(content[p]) : p \in 1..MaxPages}] :
                     \A p \in 1..MaxPages : l[p] \in PageLists(content[p])}}

\* the elements of a list, each with the number of times it occurs
Counted(s) == {<<s[k], Cardinality({n \in 1..Len(s) : s[n] = s[k]})>> : k \in 1..Len(s)}

\* what a run that read the existing map does for the scraped list s: the
\* shifts it adds, the events it removes, the updates it writes
PlanOf(s) ==
    [ add    |-> Counted(compute_shifts_to_add(s, existing_shifts_for_key)),
      remove |-> Counted(compute_events_to_remove(existing_shifts_for_key, dict_of_shifts(s))),
      update |-> Counted(compute_shifts_to_update(existing_shifts_for_key, dict_of_shifts(s))) ]

\* C12: once the run has read the calendar, what it adds, removes and updates
\* for the list the scrape handed it is what it would add, remove and update
\* for the list of any other order of completion of the same pages and
\* fragments.
C12_OrderIndependent ==
    (scrape.stage = "reconciling" /\ pc \in {"add", "remove", "update", "done"}) =>
        \A other \in Aggregations(scrape.content) : PlanOf(other) = PlanOf(shifts)

(***************************************************************************)
(* Runs that follow one another on the same scraped list, each one         *)
(* starting once the one before has completed (the schedule of             *)
(* src/app.py), up to three of them.                                       *)
(***************************************************************************)
MaxConsecutiveRuns == 3

\* a run starts, the first or the one after a completed run
StartConsecutiveRun ==
    /\ run < MaxConsecutiveRuns
    /\ pc \in {"idle", "done"}
    /\ BeginRun

NextConsecutive ==
    \/ StartConsecutiveRun
    \/ ReadNoDescription
    \/ ReadDuplicate
    \/ ReadRecord
    \/ PlanAdditions
    \/ AddEvent
    \/ PlanRemovals
    \/ DeleteEvent
    \/ PlanUpdates
    \/ UpdateEvent
    \/ Finish

SpecConsecutive == Init /\ [][NextConsecutive]_vars

\* the third of three completed runs in succession has completed
CompletedThrice ==
    /\ Completed
    /\ Len(outcomes) = 3
    /\ \A k \in 1..3 : outcomes[k] = "done"

\* C21: the third of three completed runs in succession on the same scraped
\* list has issued no add_event, delete_event or update_event, and the
\* calendar holds exactly one event for every scraped key.
C21_ThirdRunIssuesNothing ==
    CompletedThrice =>
        /\ calls = <<>>
        /\ \A key \in ScrapedKeys : Cardinality({e \in calendar : KeyOf(e) = key}) = 1

\* the event has a description and no line of it starts with <li>
NoListedUrl(event) ==
    /\ event.description /= NoDescription
    /\ \A k \in 1..Len(splitlines(event.description)) :
          ~startswith(strip(splitlines(event.description)[k]), <<"<", "l", "i", ">">>)

\* C22: for every event get_events returned whose description has no line
\* starting with <li>, from_event yields a shift without urls, and a completed
\* run has issued, if the key of the event is scraped, exactly one update_event
\* on it, writing a description that lists the scraped urls of the key, and no
\* delete_event; if the key is not scraped, exactly one delete_event on it and
\* no update_event.
C22_UnlistedEventUpdatedOrDeleted ==
    Completed =>
        \A n \in 1..Len(events) :
            NoListedUrl(events[n]) =>
                LET key     == KeyOf(events[n])
                    updates == CallsOn("update_event", events[n].id)
                    deletes == CallsOn("delete_event", events[n].id)
                IN  /\ from_event(events[n]).urls = {}
                    /\ IF key \in ScrapedKeys
                       THEN /\ Cardinality(updates) = 1
                            /\ deletes = {}
                            /\ \A k \in updates :
                                  Lists(calls[k].event.description, key.label, MergedUrls(key))
                       ELSE /\ Cardinality(deletes) = 1
                            /\ updates = {}

====
